---- MODULE Spec2Model ----
(***************************************************************************)
(* Model of scripts/import_tatoeba_examples.py (class TatoebaImporter):    *)
(* the sentence quality filter, the similarity penalty, the greedy         *)
(* diversity selection and the per-entry candidate search.                 *)
(*                                                                         *)
(* A Python str is modelled as a sequence of Unicode code points           *)
(* (naturals); character classes of the regular expressions are sets of    *)
(* code points.  Python list indices are 0-based, sequences here 1-based.  *)
(***************************************************************************)
EXTENDS Integers, Sequences, FiniteSets, TLC

VARIABLES
    f_text,         \* filter_sentence: the argument text
    f_result,       \* filter_sentence: the value returned
    f_called,       \* filter_sentence: has the call returned
    p_args,         \* calculate_similarity_penalty: the four arguments
    p_result,       \* calculate_similarity_penalty: the value returned
    p_called,       \* calculate_similarity_penalty: has the call returned
    jpn_sentences,  \* self.jpn_sentences: {id: text}, in insertion order
    eng_sentences,  \* self.eng_sentences: {id: text}, in insertion order
    links,          \* self.links: {jpn_id: [eng_id, ...]}
    entries,        \* self.entries, in priority order
    pc,             \* position of the import run
    next_entry,     \* index of the next entry of the import loop
    cur,            \* find_examples_for_entry: the entry being processed
    candidates,     \* find_examples_for_entry: the sorted candidate list
    selected,       \* calculate_diversity_score: selected
    remaining,      \* calculate_diversity_score: remaining
    results,        \* the lists returned so far, one per processed entry
    processed,      \* the ids of the entries those lists were returned for
    word_senses,    \* table word_senses: rows (id, entry_id, sense_order)
    max_entries,    \* import_examples: the argument max_entries
    db_rows,        \* table example_sentences as the open connection sees it
    committed,      \* table example_sentences as committed
    run,            \* number of the current run of the importer
    sentences_file, \* sentences.csv: the rows csv.reader yields
    links_file,     \* links.csv: the rows csv.reader yields
    missing_files,  \* the corpus files that cannot be opened
    x_rows,         \* deduplicate_by_sense: table example_sentences
    x_n5,           \* deduplicate_by_sense: the entries of JLPT level N5
    x_pc,           \* deduplicate_by_sense: position in the script
    x_pos,          \* deduplicate_by_sense: the fetched row the loop is at
    x_seen,         \* deduplicate_by_sense: seen_texts
    x_has,          \* deduplicate_by_sense: senses with sense_has_example
    x_delete,       \* deduplicate_by_sense: to_delete
    g_cfg,          \* batch_generate_examples: daily_limit, batch_size, max_rank
    g_table,        \* batch_generate_examples: table dictionary_entries
    g_state,        \* batch_generate_examples: self.state, as saved
    g_today,        \* the calendar day
    g_calls,        \* API calls made on that day
    g_examples,     \* the entries whose senses have example sentences
    g_batch,        \* run: the fetched entries not yet processed
    g_pc            \* batch_generate_examples: position in the script

\* ------------------------------------------------------------------------
\* Characters used to build inputs (name |-> code point).
\* ------------------------------------------------------------------------
Ch == [ a |-> 12354,        \* U+3042 hiragana a
        i |-> 12356,        \* U+3044 hiragana i
        ka |-> 12363,       \* U+304B
        ga |-> 12364,       \* U+304C
        ki |-> 12365,       \* U+304D
        ko |-> 12371,       \* U+3053
        shi |-> 12375,      \* U+3057
        su |-> 12377,       \* U+3059
        se |-> 12379,       \* U+305B
        ta |-> 12383,       \* U+305F
        da |-> 12384,       \* U+3060
        de |-> 12391,       \* U+3067
        to |-> 12392,       \* U+3068
        ni |-> 12395,       \* U+306B
        nu |-> 12396,       \* U+306C
        ne |-> 12397,       \* U+306D
        ha |-> 12399,       \* U+306F
        ma |-> 12414,       \* U+307E
        mi |-> 12415,       \* U+307F
        yo |-> 12424,       \* U+3088
        ra |-> 12425,       \* U+3089
        ri |-> 12426,       \* U+308A
        wo |-> 12434,       \* U+3092
        n |-> 12435,        \* U+3093
        neko |-> 29483,     \* U+732B kanji "cat"
        inu |-> 29356,      \* U+72AC kanji "dog"
        suki |-> 22909,     \* U+597D kanji "like"
        watashi |-> 31169,  \* U+79C1 kanji "I"
        miru |-> 35211,     \* U+898B kanji "see"
        hito |-> 20154,     \* U+4EBA kanji "person"
        maru |-> 12290,     \* U+3002 ideographic full stop
        bang |-> 65281,     \* U+FF01 fullwidth exclamation mark
        hatena |-> 65311,   \* U+FF1F fullwidth question mark
        ten |-> 12289,      \* U+3001 ideographic comma
        noma |-> 12293,     \* U+3005 ideographic iteration mark
        rare |-> 13312,     \* U+3400 first CJK Extension A character
        choon |-> 12540,    \* U+30FC prolonged sound mark
        sp |-> 32,          \* U+0020 space
        nl |-> 10,          \* U+000A line feed
        isp |-> 12288,      \* U+3000 ideographic space
        latin |-> 97 ]      \* U+0061 latin small a

\* ------------------------------------------------------------------------
\* Python str / re primitives.
\* ------------------------------------------------------------------------
Min(x, y) == IF x <= y THEN x ELSE y

\* re: the class \s on str patterns (Unicode white space)
IsSpace(c) ==
    \/ c \in 9..13
    \/ c \in 28..32
    \/ c \in {133, 160, 5760}
    \/ c \in 8192..8202
    \/ c \in {8232, 8233, 8239, 8287, 12288}

\* re: $ without MULTILINE matches at the end of the string and just
\* before a line feed that is the last character of the string.
DollarAt(text, pos) ==
    \/ pos = Len(text)
    \/ pos = Len(text) - 1 /\ text[Len(text)] = Ch.nl

\* str: `sub in text`
Contains(text, sub) ==
    \E k \in 0..(Len(text) - Len(sub)) : SubSeq(text, k + 1, k + Len(sub)) = sub

\* str.endswith
EndsWith(text, suffix) ==
    /\ Len(text) >= Len(suffix)
    /\ SubSeq(text, Len(text) - Len(suffix) + 1, Len(text)) = suffix

\* str slice text[:n]
Take(text, n) == SubSeq(text, 1, Min(n, Len(text)))

\* str.replace(old, new): non-overlapping occurrences, left to right; an
\* empty `old` matches before every character and at the end.
RECURSIVE Replace(_, _, _)
Replace(text, old, new) ==
    IF old = <<>>
    THEN IF text = <<>> THEN new
         ELSE new \o <<Head(text)>> \o Replace(Tail(text), old, new)
    ELSE IF Len(text) < Len(old) THEN text
    ELSE IF SubSeq(text, 1, Len(old)) = old
         THEN new \o Replace(SubSeq(text, Len(old) + 1, Len(text)), old, new)
         ELSE <<Head(text)>> \o Replace(Tail(text), old, new)

\* ------------------------------------------------------------------------
\* Sentence filtering criteria.
\* ------------------------------------------------------------------------
MIN_LENGTH == 5
MAX_LENGTH == 50
PRIORITY_MAX_LENGTH == 30

\* The value None, and a returned score.
None == [some |-> FALSE, score |-> 0]
Some(s) == [some |-> TRUE, score |-> s]

\* re.sub(r'\s+', '', text)
text_no_space(text) == SelectSeq(text, LAMBDA c : ~IsSpace(c))

\* Variant: the class also lets basic Latin letters through.
AllowedCharWithLatin(c) ==
    \/ c \in 12353..12435
    \/ c \in 12449..12534
    \/ c \in 19968..40879
    \/ c \in {12289, 12290, 65281, 65311}
    \/ c \in 65..122
    \/ IsSpace(c)

\* Variant: the class also lets CJK Extension A through.
AllowedCharWithRare(c) ==
    \/ c \in 12353..12435
    \/ c \in 12449..12534
    \/ c = 12540
    \/ c \in 13312..19893
    \/ c \in 19968..40879
    \/ c \in {12293, 12294, 12324}
    \/ c \in {12289, 12290, 65281, 65311}
    \/ c \in {12300, 12301, 12302, 12303}
    \/ c \in {65288, 65289}
    \/ IsSpace(c)

\* The character class of the charset rule.
AllowedChar(c) ==
    \/ c \in 12353..12435                       \* U+3041-U+3093
    \/ c \in 12449..12534                       \* U+30A1-U+30F6
    \/ c = 12540                                \* U+30FC
    \/ c \in 19968..40879                       \* U+4E00-U+9FAF
    \/ c \in {12293, 12294, 12324}              \* U+3005 U+3006 U+3024
    \/ c \in {12289, 12290, 65281, 65311}       \* U+3001 U+3002 U+FF01 U+FF1F
    \/ c \in {12300, 12301, 12302, 12303}       \* corner brackets
    \/ c \in {65288, 65289}                     \* fullwidth parentheses
    \/ IsSpace(c)

\* re.match(r'^[...]+$', text)
MatchesCharset(text) ==
    \E m \in 1..Len(text) :
        /\ \A k \in 1..m : AllowedChar(text[k])
        /\ DollarAt(text, m)

EndPunct(c) == c \in {12290, 65281, 65311}

\* re.search(r'[...]$', text)
MatchesEnding(text) ==
    \E m \in 1..Len(text) : EndPunct(text[m]) /\ DollarAt(text, m)

\* re.findall(r'[U+3400-U+4DB5]', text)
rare_kanji(text) == SelectSeq(text, LAMBDA c : c \in 13312..19893)

common_particles ==
    << <<Ch.ha>>, <<Ch.ga>>, <<Ch.wo>>, <<Ch.ni>>, <<Ch.de>>, <<Ch.to>>,
       <<Ch.ka, Ch.ra>>, <<Ch.ma, Ch.de>>, <<Ch.yo, Ch.ri>> >>

\* Variant: 5 points per occurrence of the particle instead of once.
ParticleScorePerOccurrence(text, particle) ==
    5 * Cardinality({ k \in 0..(Len(text) - Len(particle)) :
                        SubSeq(text, k + 1, k + Len(particle)) = particle })

\* `if particle in text: score += 5`
ParticleScore(text, particle) ==
    IF Contains(text, particle) THEN 5 ELSE 0

\* the loop `for particle in common_particles`, from list position k on
RECURSIVE ParticleBonus(_, _)
ParticleBonus(text, k) ==
    IF k > Len(common_particles) THEN 0
    ELSE ParticleScore(text, common_particles[k]) + ParticleBonus(text, k + 1)

\* Variant: the brevity reward is not doubled.
LengthTermUndoubled(length) ==
    IF length <= PRIORITY_MAX_LENGTH
    THEN PRIORITY_MAX_LENGTH - length
    ELSE 0 - (length - PRIORITY_MAX_LENGTH)

LengthTerm(length) ==
    IF length <= PRIORITY_MAX_LENGTH
    THEN (PRIORITY_MAX_LENGTH - length) * 2
    ELSE 0 - (length - PRIORITY_MAX_LENGTH)

\* Variant: the bounds themselves are rejected too.
LengthRejectedStrict(length) == length <= MIN_LENGTH \/ length >= MAX_LENGTH

LengthRejected(length) == length < MIN_LENGTH \/ length > MAX_LENGTH

filter_sentence(text) ==
    LET length == Len(text_no_space(text)) IN
    IF LengthRejected(length) THEN None
    ELSE IF ~MatchesCharset(text) THEN None
    ELSE IF ~MatchesEnding(text) THEN None
    ELSE Some(100 + LengthTerm(length)
                  - Len(rare_kanji(text)) * 10
                  + ParticleBonus(text, 1))

\* ------------------------------------------------------------------------
\* Sentence patterns and the similarity penalty.
\* ------------------------------------------------------------------------
WORD == <<87, 79, 82, 68>>      \* the placeholder 'WORD'

extract_sentence_pattern(text, headword, reading) ==
    Replace(Replace(text, headword, WORD), reading, WORD)

endings ==
    << <<Ch.de, Ch.su, Ch.maru>>,               \* desu.
       <<Ch.ma, Ch.su, Ch.maru>>,               \* masu.
       <<Ch.da, Ch.maru>>,                      \* da.
       <<Ch.ma, Ch.se, Ch.n, Ch.maru>>,         \* masen.
       <<Ch.ma, Ch.shi, Ch.ta, Ch.maru>>,       \* mashita.
       <<Ch.de, Ch.shi, Ch.ta, Ch.maru>> >>     \* deshita.

\* the loop `for ending in endings` for one text, from list position k on,
\* found being the value of textN_ending so far (<<>> stands for None)
RECURSIVE EndingLoop(_, _, _)
EndingLoop(text, k, found) ==
    IF k > Len(endings) THEN found
    ELSE EndingLoop(text, k + 1,
                    IF EndsWith(text, endings[k]) THEN endings[k] ELSE found)

\* Variant: any two recognised endings count as the same ending.
EndingPenaltyAnyMarker(text1, text2) ==
    IF EndingLoop(text1, 1, <<>>) # <<>> /\ EndingLoop(text2, 1, <<>>) # <<>>
    THEN 50 ELSE 0

EndingPenalty(text1, text2) ==
    LET text1_ending == EndingLoop(text1, 1, <<>>)
        text2_ending == EndingLoop(text2, 1, <<>>)
    IN IF text1_ending # <<>> /\ text1_ending = text2_ending THEN 50 ELSE 0

structure_words ==
    << <<Ch.ha>>, <<Ch.ga>>, <<Ch.wo>>, <<Ch.ni>>, <<Ch.de>>, <<Ch.to>>,
       <<Ch.ka, Ch.ra>>, <<Ch.ma, Ch.de>> >>

\* the loop `for word in structure_words`, from list position k on
RECURSIVE common_structures(_, _, _)
common_structures(text1, text2, k) ==
    IF k > Len(structure_words) THEN 0
    ELSE (IF Contains(text1, structure_words[k])
             /\ Contains(text2, structure_words[k]) THEN 1 ELSE 0)
         + common_structures(text1, text2, k + 1)

StructurePenalty(text1, text2) ==
    IF common_structures(text1, text2, 1) >= 3 THEN 30 ELSE 0

\* Variant: the comparison of the starts without the length guard.
StartPenaltyUnguarded(text1, text2, headword, reading) ==
    LET start1 == Take(Replace(Replace(text1, headword, <<>>), reading, <<>>), 3)
        start2 == Take(Replace(Replace(text2, headword, <<>>), reading, <<>>), 3)
    IN IF start1 = start2 /\ start1 # <<>> THEN 40 ELSE 0

StartPenalty(text1, text2, headword, reading) ==
    IF Len(text1) >= 3 /\ Len(text2) >= 3
    THEN LET start1 == Take(Replace(Replace(text1, headword, <<>>),
                                    reading, <<>>), 3)
             start2 == Take(Replace(Replace(text2, headword, <<>>),
                                    reading, <<>>), 3)
         IN IF start1 = start2 /\ start1 # <<>> THEN 40 ELSE 0
    ELSE 0

\* Variant: identical patterns cost 10 instead of 1000.
calculate_similarity_penalty_low(text1, text2, headword, reading) ==
    LET pattern1 == extract_sentence_pattern(text1, headword, reading)
        pattern2 == extract_sentence_pattern(text2, headword, reading)
    IN IF pattern1 = pattern2 THEN 10
       ELSE EndingPenalty(text1, text2)
            + StructurePenalty(text1, text2)
            + StartPenalty(text1, text2, headword, reading)

\* Variant: identical patterns cost 1000000 instead of 1000.
calculate_similarity_penalty_huge(text1, text2, headword, reading) ==
    LET pattern1 == extract_sentence_pattern(text1, headword, reading)
        pattern2 == extract_sentence_pattern(text2, headword, reading)
    IN IF pattern1 = pattern2 THEN 1000000
       ELSE EndingPenalty(text1, text2)
            + StructurePenalty(text1, text2)
            + StartPenalty(text1, text2, headword, reading)

calculate_similarity_penalty(text1, text2, headword, reading) ==
    LET pattern1 == extract_sentence_pattern(text1, headword, reading)
        pattern2 == extract_sentence_pattern(text2, headword, reading)
    IN IF pattern1 = pattern2 THEN 1000
       ELSE EndingPenalty(text1, text2)
            + StructurePenalty(text1, text2)
            + StartPenalty(text1, text2, headword, reading)

\* ------------------------------------------------------------------------
\* Inputs of the penalty: texts made of a start, a run of structure words
\* and an end, for an entry (headword, reading).
\* ------------------------------------------------------------------------
PenaltyStarts ==
    { <<>>, <<Ch.a>>, <<Ch.neko>>, <<Ch.ne, Ch.ko>>, <<Ch.neko, Ch.a>>,
      <<Ch.i, Ch.nu>> }

PenaltyWords ==
    { <<>>, <<Ch.ha>>, <<Ch.ha, Ch.ga>>, <<Ch.ha, Ch.ga, Ch.wo>>,
      <<Ch.ga, Ch.wo>> }

PenaltyEnds ==
    { <<>>, <<Ch.maru>> } \cup { endings[k] : k \in 1..Len(endings) }

PenaltyTexts ==
    { s \o w \o e : s \in PenaltyStarts, w \in PenaltyWords, e \in PenaltyEnds }

PenaltyEntries ==
    { [headword |-> <<Ch.neko>>, reading |-> <<Ch.ne, Ch.ko>>],
      [headword |-> <<Ch.a>>, reading |-> <<Ch.a>>] }

\* ------------------------------------------------------------------------
\* Greedy diversity selection (calculate_diversity_score).
\* ------------------------------------------------------------------------
\* the loop `for selected_sent in selected`, from list position k on:
\* the sum of the penalties of the candidate against the selected ones
RECURSIVE PenaltySum(_, _, _)
PenaltySum(candidate, sel, k) ==
    IF k > Len(sel) THEN 0
    ELSE calculate_similarity_penalty(candidate.japanese, sel[k].japanese,
                                      candidate.headword, candidate.reading)
         + PenaltySum(candidate, sel, k + 1)

diversity_score(candidate, sel) ==
    candidate.score - PenaltySum(candidate, sel, 1)

\* Variant: a later candidate with an equal score replaces the best one.
ImprovesOrEqual(score, best_diversity_score) == score >= best_diversity_score

\* `if diversity_score > best_diversity_score`
Improves(score, best_diversity_score) == score > best_diversity_score

\* the loop `for idx, candidate in enumerate(remaining)`, from position
\* idx on; yields best_idx (1-based)
RECURSIVE BestLoop(_, _, _, _, _)
BestLoop(rem, sel, idx, best_idx, best_diversity_score) ==
    IF idx > Len(rem) THEN best_idx
    ELSE LET d == diversity_score(rem[idx], sel) IN
         IF Improves(d, best_diversity_score)
         THEN BestLoop(rem, sel, idx + 1, idx, d)
         ELSE BestLoop(rem, sel, idx + 1, best_idx, best_diversity_score)

best_idx(rem, sel) == BestLoop(rem, sel, 1, 1, 0 - 999999)

\* Variant: the first element is removed whatever k is.
PopFirst(seq, k) == Tail(seq)

\* list.pop(k): the list without its k-th element
Pop(seq, k) == SubSeq(seq, 1, k - 1) \o SubSeq(seq, k + 1, Len(seq))

\* Variant: the loop goes on until four are selected.
LoopContinuesToFour(rem, sel) == rem # <<>> /\ Len(sel) < 4

\* `while remaining and len(selected) < 3`
LoopContinues(rem, sel) == rem # <<>> /\ Len(sel) < 3

\* ------------------------------------------------------------------------
\* Candidate search (find_examples_for_entry).
\* ------------------------------------------------------------------------
\* dict lookup in an insertion-ordered {id: text}
HasKey(dict, id) == \E k \in 1..Len(dict) : dict[k].id = id
Lookup(dict, id) == dict[CHOOSE k \in 1..Len(dict) : dict[k].id = id].text
\* dict.get(id, '')
GetOrEmpty(dict, id) == IF HasKey(dict, id) THEN Lookup(dict, id) ELSE <<>>

\* Variant: every sentence counts as containing the word.
ContainsWordAlways(text, headword, reading) == TRUE

\* the negation of `headword not in jpn_text and reading not in jpn_text`
ContainsWord(text, headword, reading) ==
    ~(~Contains(text, headword) /\ ~Contains(text, reading))

\* Variant: the last linked sentence is taken.
LastLink(l) == l[Len(l)]

\* `self.links[jpn_id][0]`: the first linked sentence
FirstLink(l) == l[1]

\* the body of the loop over self.jpn_sentences.items() for one item:
\* the list of candidates it appends (one or none)
CandidateOf(item, entry) ==
    IF item.id \notin DOMAIN links THEN <<>>
    ELSE IF ~ContainsWord(item.text, entry.headword, entry.reading) THEN <<>>
    ELSE LET score == filter_sentence(item.text) IN
         IF ~score.some THEN <<>>
         ELSE LET eng_id == FirstLink(links[item.id])
                  eng_text == GetOrEmpty(eng_sentences, eng_id)
              IN IF eng_text = <<>> THEN <<>>
                 ELSE << [japanese |-> item.text,
                          english |-> eng_text,
                          score |-> score.score,
                          headword |-> entry.headword,
                          reading |-> entry.reading] >>

RECURSIVE CollectCandidates(_, _)
CollectCandidates(entry, k) ==
    IF k > Len(jpn_sentences) THEN <<>>
    ELSE CandidateOf(jpn_sentences[k], entry) \o CollectCandidates(entry, k + 1)

\* Variant: a candidate goes before the candidates of equal score.
RECURSIVE InsertBeforeTies(_, _)
InsertBeforeTies(sorted, c) ==
    IF sorted = <<>> THEN <<c>>
    ELSE IF Head(sorted).score > c.score
         THEN <<Head(sorted)>> \o InsertBeforeTies(Tail(sorted), c)
         ELSE <<c>> \o sorted

\* list.sort(key=score, reverse=True): stable, descending
RECURSIVE InsertByScore(_, _)
InsertByScore(sorted, c) ==
    IF sorted = <<>> THEN <<c>>
    ELSE IF Head(sorted).score >= c.score
         THEN <<Head(sorted)>> \o InsertByScore(Tail(sorted), c)
         ELSE <<c>> \o sorted

RECURSIVE SortByScore(_)
SortByScore(seq) ==
    IF seq = <<>> THEN <<>>
    ELSE InsertByScore(SortByScore(SubSeq(seq, 1, Len(seq) - 1)), seq[Len(seq)])

\* ex.pop('headword'), ex.pop('reading') on every returned example
WithoutWord(seq) ==
    [k \in 1..Len(seq) |-> [japanese |-> seq[k].japanese,
                            english |-> seq[k].english,
                            score |-> seq[k].score]]

\* Variant: the key is read with self.links[jpn_id], which creates it.
LinksAfterSubscript(l, id) ==
    IF id \in DOMAIN l THEN l
    ELSE [x \in DOMAIN l \cup {id} |-> IF x \in DOMAIN l THEN l[x] ELSE <<>>]

\* `jpn_id not in self.links`: the membership test leaves self.links as
\* it is (no key is created in the defaultdict)
LinksAfterTest(l, id) == l

\* self.links after the loop over self.jpn_sentences.items(), from
\* position k on
RECURSIVE LinksAfterScan(_, _)
LinksAfterScan(l, k) ==
    IF k > Len(jpn_sentences) THEN l
    ELSE LinksAfterScan(LinksAfterTest(l, jpn_sentences[k].id), k + 1)

\* Variant: the list `selected` outlives the call and is extended.
StartSelectedKeeping(previous, sorted) == previous \o <<sorted[1]>>

\* `selected = []` followed by `selected.append(remaining.pop(0))`
StartSelected(previous, sorted) == <<sorted[1]>>

\* ------------------------------------------------------------------------
\* The import loop (import_examples).
\* ------------------------------------------------------------------------
COMMIT_EVERY == 1000

\* the argument max_entries: None, or the integer of the command line
NoCap == [given |-> FALSE, n |-> 0]
Cap(n) == [given |-> TRUE, n |-> n]

\* list slice seq[:n]
SliceTo(seq, n) ==
    IF n >= 0 THEN SubSeq(seq, 1, Min(n, Len(seq)))
    ELSE SubSeq(seq, 1, Len(seq) + n)

\* `self.entries[:max_entries] if max_entries else self.entries`
entries_to_process ==
    IF max_entries.given /\ max_entries.n # 0
    THEN SliceTo(entries, max_entries.n)
    ELSE entries

\* `senses = {row[1]: row[0] for row in ...}` over the rows ordered by
\* entry_id, sense_order: a later row of an entry replaces an earlier one
HasSense(entry_id) ==
    \E k \in 1..Len(word_senses) : word_senses[k].entry_id = entry_id

senses(entry_id) ==
    LET rows == { k \in 1..Len(word_senses) :
                    word_senses[k].entry_id = entry_id }
        last == CHOOSE k \in rows :
                    \A j \in rows :
                        word_senses[j].sense_order <= word_senses[k].sense_order
    IN word_senses[last].id

\* Variant: enumerate(examples) counting from 0.
ExampleOrderFromZero(x) == x - 1

\* `enumerate(examples, 1)`: the order of the x-th example
ExampleOrder(x) == x

\* the rows the loop over enumerate(examples, 1) inserts
InsertedRows(sense_id, examples) ==
    [x \in 1..Len(examples) |->
        [sense_id |-> sense_id,
         japanese_text |-> examples[x].japanese,
         english_translation |-> examples[x].english,
         example_order |-> ExampleOrder(x)]]

\* ------------------------------------------------------------------------
\* Loading the corpus (load_sentences, load_links).
\* ------------------------------------------------------------------------
\* str.strip(): white space removed at both ends
RECURSIVE StripLeft(_)
StripLeft(text) ==
    IF text # <<>> /\ IsSpace(text[1]) THEN StripLeft(Tail(text)) ELSE text

RECURSIVE StripRight(_)
StripRight(text) ==
    IF text # <<>> /\ IsSpace(text[Len(text)])
    THEN StripRight(SubSeq(text, 1, Len(text) - 1))
    ELSE text

Strip(text) == StripRight(StripLeft(text))

IsDigit(c) == c \in 48..57

RECURSIVE Decimal(_)
Decimal(digits) ==
    IF digits = <<>> THEN 0
    ELSE Decimal(SubSeq(digits, 1, Len(digits) - 1)) * 10
           + (digits[Len(digits)] - 48)

\* int(field): white space around the literal is ignored, one sign is
\* allowed, then decimal digits; anything else raises ValueError (ok is
\* FALSE). Underscores between digits and non-ASCII digits, which int()
\* also accepts, occur in no field used here.
IntOf(field) ==
    LET t == Strip(field)
        signed == t # <<>> /\ t[1] \in {43, 45}
        digits == IF signed THEN Tail(t) ELSE t
    IN IF digits = <<>> \/ \E k \in 1..Len(digits) : ~IsDigit(digits[k])
       THEN [ok |-> FALSE, val |-> 0]
       ELSE [ok |-> TRUE,
             val |-> IF signed /\ t[1] = 45 THEN 0 - Decimal(digits)
                     ELSE Decimal(digits)]

\* the language tags of sentences.csv
Lang == [jpn |-> <<106, 112, 110>>, eng |-> <<101, 110, 103>>]

\* `target_dict[sentence_id] = text`: a known key keeps its position
DictSet(dict, id, text) ==
    IF HasKey(dict, id)
    THEN [k \in 1..Len(dict) |->
            IF dict[k].id = id THEN [id |-> id, text |-> text] ELSE dict[k]]
    ELSE Append(dict, [id |-> id, text |-> text])

\* Variant: a file that cannot be opened reads as an empty one.
OpenReadsEmpty(name, missing) == FALSE

\* `with open(file, 'r', encoding='utf-8') as f` raises for a file that
\* is missing or unreadable
OpenFails(name, missing) == name \in missing

\* load_sentences(lang) from row k on: the dictionary filled, or, when
\* int() raises, ok = FALSE and the dictionary as far as it was filled
RECURSIVE LoadSentencesFrom(_, _, _, _)
LoadSentencesFrom(rows, lang, k, dict) ==
    IF k > Len(rows) THEN [ok |-> TRUE, dict |-> dict]
    ELSE LET row == rows[k] IN
         IF Len(row) >= 3 /\ row[2] = lang
         THEN LET sentence_id == IntOf(row[1]) IN
              IF ~sentence_id.ok THEN [ok |-> FALSE, dict |-> dict]
              ELSE LoadSentencesFrom(rows, lang, k + 1,
                       DictSet(dict, sentence_id.val, Strip(row[3])))
         ELSE LoadSentencesFrom(rows, lang, k + 1, dict)

\* Variant: a link is registered from id1 to id2 in both cases.
ResolveEdgeUnswapped(id1, id2, jpn, eng) ==
    IF HasKey(jpn, id1) /\ HasKey(eng, id2) THEN <<id1, id2>>
    ELSE IF HasKey(eng, id1) /\ HasKey(jpn, id2) THEN <<id1, id2>>
    ELSE <<>>

\* the if / elif of load_links: the (key, target) registered for a row
ResolveEdge(id1, id2, jpn, eng) ==
    IF HasKey(jpn, id1) /\ HasKey(eng, id2) THEN <<id1, id2>>
    ELSE IF HasKey(eng, id1) /\ HasKey(jpn, id2) THEN <<id2, id1>>
    ELSE <<>>

\* `self.links[key].append(target)` on the defaultdict
LinksAppend(l, key, target) ==
    [x \in DOMAIN l \cup {key} |->
        IF x # key THEN l[x]
        ELSE IF key \in DOMAIN l THEN Append(l[key], target)
        ELSE <<target>>]

\* load_links from row k on
RECURSIVE LoadLinksFrom(_, _, _)
LoadLinksFrom(rows, k, l) ==
    IF k > Len(rows) THEN [ok |-> TRUE, links |-> l]
    ELSE LET row == rows[k] IN
         IF Len(row) >= 2
         THEN LET id1 == IntOf(row[1])
                  id2 == IntOf(row[2])
              IN IF ~id1.ok \/ ~id2.ok THEN [ok |-> FALSE, links |-> l]
                 ELSE LET edge == ResolveEdge(id1.val, id2.val,
                                              jpn_sentences, eng_sentences)
                      IN LoadLinksFrom(rows, k + 1,
                             IF edge = <<>> THEN l
                             ELSE LinksAppend(l, edge[1], edge[2]))
         ELSE LoadLinksFrom(rows, k + 1, l)

\* ------------------------------------------------------------------------
\* Corpora and entries the importer is run on.
\* ------------------------------------------------------------------------
MaxCorpus == 4

SentenceTable ==
    << <<Ch.neko, Ch.ga, Ch.suki, Ch.ki, Ch.de, Ch.su, Ch.maru>>,
       <<Ch.ne, Ch.ko, Ch.ga, Ch.suki, Ch.ki, Ch.de, Ch.su, Ch.maru>>,
       <<Ch.neko, Ch.ga, Ch.su, Ch.ki, Ch.de, Ch.su, Ch.maru>>,
       <<Ch.watashi, Ch.ha, Ch.neko, Ch.wo, Ch.miru, Ch.ma, Ch.shi, Ch.ta,
         Ch.maru>>,
       <<Ch.neko, Ch.ga, Ch.suki, Ch.ki, Ch.de, Ch.su>>,
       <<Ch.watashi, Ch.ha, Ch.inu, Ch.ga, Ch.suki, Ch.ki, Ch.de, Ch.su,
         Ch.maru>> >>

\* sequences of distinct sentence ids, of length at most n
RECURSIVE IdSeqs(_)
IdSeqs(n) ==
    IF n = 0 THEN { <<>> }
    ELSE LET shorter == IdSeqs(n - 1) IN
         shorter \cup
         { Append(q, id) :
             <<q, id>> \in { x \in shorter \X (1..Len(SentenceTable)) :
                               /\ Len(x[1]) = n - 1
                               /\ \A k \in 1..(n - 1) : x[1][k] # x[2] } }

EnglishTexts ==
    << [id |-> 101, text |-> <<67, 97, 116>>],      \* 'Cat'
       [id |-> 102, text |-> <<>>],                 \* a blank translation
       [id |-> 103, text |-> <<68, 111, 103>>] >>   \* 'Dog'

\* the link lists a sentence may have besides the plain [101]: none (the
\* sentence is no key of self.links), a blank translation linked first,
\* another translation linked first (load_links registers loaded English
\* ids only)
OddLinks == { <<>>, <<102, 101>>, <<103, 101>> }

DictionaryEntries ==
    << [id |-> 1, headword |-> <<Ch.neko>>, reading |-> <<Ch.ne, Ch.ko>>],
       [id |-> 2, headword |-> <<Ch.suki, Ch.ki>>,
                  reading |-> <<Ch.su, Ch.ki>>] >>

\* every entry with one sense
DefaultSenses ==
    << [id |-> 11, entry_id |-> 1, sense_order |-> 1],
       [id |-> 21, entry_id |-> 2, sense_order |-> 1] >>

\* Stores and arguments of repeated runs: corpora of at most
\* MaxStoreCorpus sentences, at most MaxRuns runs.
MaxStoreCorpus == 2
MaxRuns == 2

SenseTables ==
    { DefaultSenses,
      \* entry 1 with two senses
      << [id |-> 11, entry_id |-> 1, sense_order |-> 1],
         [id |-> 12, entry_id |-> 1, sense_order |-> 2],
         [id |-> 21, entry_id |-> 2, sense_order |-> 1] >>,
      \* entry 1 without a sense
      << [id |-> 21, entry_id |-> 2, sense_order |-> 1] >> }

Caps == { NoCap, Cap(0), Cap(1) }

EntryOrders ==
    { DictionaryEntries, <<DictionaryEntries[2], DictionaryEntries[1]>> }

\* ------------------------------------------------------------------------
\* Inputs of the filter: a run of hiragana "a" in blocks of PadBlock
\* characters followed by up to MaxTokens tokens.
\* ------------------------------------------------------------------------
MaxTokens == 3
MaxPadBlocks == 27
PadBlock == <<Ch.a, Ch.a>>

FilterTokens ==
    { <<Ch.ga>>, <<Ch.de>>, <<Ch.ka, Ch.ra>>, <<Ch.maru>>, <<Ch.hatena>>,
      <<Ch.nl>>, <<Ch.sp>>, <<Ch.noma>>, <<Ch.rare>>, <<Ch.latin>> }

RECURSIVE Pad(_)
Pad(k) == IF k = 0 THEN <<>> ELSE PadBlock \o Pad(k - 1)

RECURSIVE TokenTexts(_)
TokenTexts(k) ==
    IF k = 0 THEN { <<>> }
    ELSE LET shorter == TokenTexts(k - 1) IN
         shorter \cup { t \o tok : t \in shorter, tok \in FilterTokens }

\* neko ga su ki de su maru  ("I like cats.", with kanji for neko and su)
ScenarioA == <<Ch.neko, Ch.ga, Ch.suki, Ch.ki, Ch.de, Ch.su, Ch.maru>>

FilterTexts ==
    { Pad(k) \o t : k \in 0..MaxPadBlocks, t \in TokenTexts(MaxTokens) }
    \cup { ScenarioA, ScenarioA \o <<Ch.nl>>, ScenarioA \o <<Ch.sp>> }

fvars == <<f_text, f_result, f_called>>
pvars == <<p_args, p_result, p_called>>
cvars == <<jpn_sentences, eng_sentences, links, entries>>
svars == <<pc, next_entry, cur, candidates, selected, remaining, results,
          processed>>
dvars == <<word_senses, max_entries, db_rows, committed, run>>
lvars == <<sentences_file, links_file, missing_files>>
xvars == <<x_rows, x_n5, x_pc, x_pos, x_seen, x_has, x_delete>>
gvars == <<g_cfg, g_table, g_state, g_today, g_calls, g_examples, g_batch,
          g_pc>>
ovars == <<xvars, gvars>>
vars == <<fvars, pvars, cvars, svars, dvars, lvars, ovars>>

\* the unused parts of the state
FilterIdle == f_text = <<>> /\ f_result = None /\ f_called = FALSE
PenaltyIdle ==
    /\ p_args = [text1 |-> <<>>, text2 |-> <<>>,
                 headword |-> <<>>, reading |-> <<>>]
    /\ p_result = 0
    /\ p_called = FALSE

DedupIdle ==
    /\ x_rows = <<>>
    /\ x_n5 = {}
    /\ x_pc = "off"
    /\ x_pos = 1
    /\ x_seen = {}
    /\ x_has = {}
    /\ x_delete = <<>>

GeneratorIdle ==
    /\ g_cfg = [daily_limit |-> 0, batch_size |-> 0, max_rank |-> 0]
    /\ g_table = <<>>
    /\ g_state = [date |-> 0, api_calls_today |-> 0, last_processed_id |-> 0]
    /\ g_today = 0
    /\ g_calls = 0
    /\ g_examples = {}
    /\ g_batch = <<>>
    /\ g_pc = "off"

OthersIdle == DedupIdle /\ GeneratorIdle

ImportIdle ==
    /\ jpn_sentences = <<>>
    /\ eng_sentences = <<>>
    /\ links = <<>>
    /\ entries = <<>>
    /\ pc = "off"
    /\ next_entry = 1
    /\ cur = [id |-> 0, headword |-> <<>>, reading |-> <<>>]
    /\ candidates = <<>>
    /\ selected = <<>>
    /\ remaining = <<>>
    /\ results = <<>>
    /\ processed = <<>>
    /\ word_senses = <<>>
    /\ max_entries = NoCap
    /\ db_rows = <<>>
    /\ committed = <<>>
    /\ run = 0
    /\ sentences_file = <<>>
    /\ links_file = <<>>
    /\ missing_files = {}

\* --- filter_sentence applied to one text --------------------------------
FilterInit ==
    /\ f_text \in FilterTexts
    /\ f_result = None
    /\ f_called = FALSE
    /\ PenaltyIdle
    /\ ImportIdle
    /\ OthersIdle

CallFilter ==
    /\ ~f_called
    /\ f_result' = filter_sentence(f_text)
    /\ f_called' = TRUE
    /\ UNCHANGED <<f_text, pvars, cvars, svars, dvars, lvars, ovars>>

FilterNext == CallFilter

SpecFilter == FilterInit /\ [][FilterNext]_vars

\* --- calculate_similarity_penalty applied to one pair of texts -----------
PenaltyInit ==
    /\ \E t1 \in PenaltyTexts, t2 \in PenaltyTexts, e \in PenaltyEntries :
           p_args = [text1 |-> t1, text2 |-> t2,
                     headword |-> e.headword, reading |-> e.reading]
    /\ p_result = 0
    /\ p_called = FALSE
    /\ FilterIdle
    /\ ImportIdle
    /\ OthersIdle

CallPenalty ==
    /\ ~p_called
    /\ p_result' = calculate_similarity_penalty(p_args.text1, p_args.text2,
                                                p_args.headword, p_args.reading)
    /\ p_called' = TRUE
    /\ UNCHANGED <<p_args, fvars, cvars, svars, dvars, lvars, ovars>>

PenaltyNext == CallPenalty

SpecPenalty == PenaltyInit /\ [][PenaltyNext]_vars

\* --- the import run: every entry in turn ---------------------------------
\* the importer constructed, import_examples about to start its loop
RunStart ==
    /\ pc = "ready"
    /\ next_entry = 1
    /\ cur = [id |-> 0, headword |-> <<>>, reading |-> <<>>]
    /\ candidates = <<>>
    /\ selected = <<>>
    /\ remaining = <<>>
    /\ results = <<>>
    /\ processed = <<>>

Init ==
    /\ \E q \in IdSeqs(MaxCorpus) :
         /\ jpn_sentences = [k \in 1..Len(q) |->
                               [id |-> q[k], text |-> SentenceTable[q[k]]]]
         /\ \E odd \in 0..Len(q), l \in OddLinks :
              /\ odd = 0 => l = <<>>
              /\ links =
                   LET keys == { q[k] : k \in { j \in 1..Len(q) :
                                                  j # odd \/ l # <<>> } }
                   IN [id \in keys |->
                         IF odd # 0 /\ id = q[odd] THEN l ELSE <<101>>]
    /\ eng_sentences = EnglishTexts
    /\ entries = DictionaryEntries
    /\ RunStart
    /\ word_senses = DefaultSenses
    /\ max_entries = NoCap
    /\ db_rows = <<>>
    /\ committed = <<>>
    /\ run = 1
    /\ sentences_file = <<>>
    /\ links_file = <<>>
    /\ missing_files = {}
    /\ FilterIdle
    /\ PenaltyIdle
    /\ OthersIdle

\* an entry without a sense: `continue`
SkipEntry ==
    /\ pc = "ready"
    /\ next_entry <= Len(entries_to_process)
    /\ ~HasSense(entries_to_process[next_entry].id)
    /\ next_entry' = next_entry + 1
    /\ UNCHANGED <<pc, cur, candidates, selected, remaining, results, processed,
                   cvars, dvars, fvars, pvars, lvars, ovars>>

\* find_examples_for_entry up to the first pick of calculate_diversity_score
BeginEntry ==
    /\ pc = "ready"
    /\ next_entry <= Len(entries_to_process)
    /\ HasSense(entries_to_process[next_entry].id)
    /\ LET entry == entries_to_process[next_entry]
           sorted == SortByScore(CollectCandidates(entry, 1))
       IN /\ cur' = entry
          /\ candidates' = sorted
          /\ links' = LinksAfterScan(links, 1)
          /\ IF sorted = <<>>
             THEN /\ selected' = <<>>
                  /\ remaining' = <<>>
                  /\ pc' = "return"
             ELSE /\ selected' = StartSelected(selected, sorted)
                  /\ remaining' = Pop(sorted, 1)
                  /\ pc' = "loop"
    /\ UNCHANGED <<next_entry, results, processed, jpn_sentences, eng_sentences,
                   entries, dvars, fvars, pvars, lvars, ovars>>

\* one iteration of the while loop of calculate_diversity_score
PickNext ==
    /\ pc = "loop"
    /\ LoopContinues(remaining, selected)
    /\ LET b == best_idx(remaining, selected) IN
          /\ selected' = Append(selected, remaining[b])
          /\ remaining' = Pop(remaining, b)
    /\ UNCHANGED <<pc, next_entry, cur, candidates, results, processed,
                   cvars, dvars, fvars, pvars, lvars, ovars>>

\* the loop ends; find_examples_for_entry returns the selected examples
ReturnExamples ==
    /\ \/ pc = "return"
       \/ pc = "loop" /\ ~LoopContinues(remaining, selected)
    /\ results' = Append(results, WithoutWord(selected))
    /\ processed' = Append(processed, cur.id)
    /\ pc' = "insert"
    /\ UNCHANGED <<next_entry, cur, candidates, selected, remaining,
                   cvars, dvars, fvars, pvars, lvars, ovars>>

\* the returned examples are inserted for the entry's sense; every
\* COMMIT_EVERY entries the transaction is committed
InsertExamples ==
    /\ pc = "insert"
    /\ LET rows == InsertedRows(senses(cur.id), results[Len(results)]) IN
          /\ db_rows' = db_rows \o rows
          /\ committed' = IF next_entry % COMMIT_EVERY = 0
                          THEN db_rows \o rows ELSE committed
    /\ next_entry' = next_entry + 1
    /\ pc' = "ready"
    /\ UNCHANGED <<cur, candidates, selected, remaining, results, processed,
                   word_senses, max_entries, run, cvars, fvars, pvars, lvars, ovars>>

\* an INSERT raises: the exception leaves import_examples, main reports it
\* and exits; what was not committed is gone with the connection
InsertFails ==
    /\ pc = "insert"
    /\ results[Len(results)] # <<>>
    /\ db_rows' = committed
    /\ pc' = "aborted"
    /\ UNCHANGED <<next_entry, cur, candidates, selected, remaining, results,
                   processed, word_senses, max_entries, committed, run,
                   cvars, fvars, pvars, lvars, ovars>>

\* the loop over the entries is exhausted: final commit, then the summary
\* (whose coverage line divides by the number of entries processed)
Finish ==
    /\ pc = "ready"
    /\ next_entry > Len(entries_to_process)
    /\ committed' = db_rows
    /\ pc' = IF Len(entries_to_process) = 0 THEN "aborted" ELSE "done"
    /\ UNCHANGED <<next_entry, cur, candidates, selected, remaining, results,
                   processed, word_senses, max_entries, db_rows, run,
                   cvars, fvars, pvars, lvars, ovars>>

\* the importer is started again on the same corpus and store
Rerun ==
    /\ pc \in {"done", "aborted"}
    /\ run < MaxRuns
    /\ run' = run + 1
    /\ db_rows' = committed
    /\ pc' = "ready"
    /\ next_entry' = 1
    /\ cur' = [id |-> 0, headword |-> <<>>, reading |-> <<>>]
    /\ candidates' = <<>>
    /\ selected' = <<>>
    /\ remaining' = <<>>
    /\ results' = <<>>
    /\ processed' = <<>>
    /\ UNCHANGED <<word_senses, max_entries, committed, cvars, fvars, pvars, lvars, ovars>>

Next == BeginEntry \/ PickNext \/ ReturnExamples \/ InsertExamples \/ Finish

Spec == Init /\ [][Next]_vars

\* --- repeated runs, with failing inserts, on small corpora ----------------
StoreInit ==
    /\ \E q \in IdSeqs(MaxStoreCorpus) :
         /\ jpn_sentences = [k \in 1..Len(q) |->
                               [id |-> q[k], text |-> SentenceTable[q[k]]]]
         /\ links = [id \in { q[k] : k \in 1..Len(q) } |-> <<101>>]
    /\ eng_sentences = EnglishTexts
    /\ entries \in EntryOrders
    /\ RunStart
    /\ word_senses \in SenseTables
    /\ max_entries \in Caps
    /\ db_rows = <<>>
    /\ committed = <<>>
    /\ run = 1
    /\ sentences_file = <<>>
    /\ links_file = <<>>
    /\ missing_files = {}
    /\ FilterIdle
    /\ PenaltyIdle
    /\ OthersIdle

StoreNext == Next \/ SkipEntry \/ InsertFails \/ Rerun

SpecStore == StoreInit /\ [][StoreNext]_vars

\* --- the corpus files loaded by the constructor --------------------------
MaxRows == 3
MaxLinkRows == 2

SentenceRows ==
    { << <<49>>, Lang.jpn, SentenceTable[1] >>,                 \* 1 jpn
      << <<32, 52>>, Lang.jpn, Append(SentenceTable[4], 32) >>, \* ' 4' jpn
      << <<49, 48, 49>>, Lang.eng, <<67, 97, 116>> >>,          \* 101 eng
      << <<49, 48, 51>>, Lang.eng, <<68, 111, 103>> >>,         \* 103 eng
      << <<120>>, Lang.jpn, SentenceTable[2] >>,                \* id 'x'
      << <<50>>, Lang.jpn >> }                                  \* 2 columns

LinkRows ==
    { << <<49>>, <<49, 48, 49>> >>,       \* 1 -> 101
      << <<49, 48, 51>>, <<49>> >>,       \* 103 -> 1
      << <<49, 48, 49>>, <<52>> >>,       \* 101 -> 4
      << <<49>>, <<52>> >>,               \* 1 -> 4
      << <<57>>, <<49, 48, 49>> >>,       \* 9 -> 101
      << <<120>>, <<49, 48, 49>> >>,      \* 'x' -> 101
      << <<49>> >> }                      \* 1 column

SeqsUpTo(S, n) == UNION { [1..m -> S] : m \in 0..n }

CorpusFiles == {"sentences.csv", "links.csv"}

LoadInit ==
    /\ sentences_file \in SeqsUpTo(SentenceRows, MaxRows)
    /\ links_file \in SeqsUpTo(LinkRows, MaxLinkRows)
    /\ missing_files \in SUBSET CorpusFiles
    /\ "sentences.csv" \in missing_files => sentences_file = <<>>
    /\ "links.csv" \in missing_files => links_file = <<>>
    /\ jpn_sentences = <<>>
    /\ eng_sentences = <<>>
    /\ links = <<>>
    /\ entries = <<>>
    /\ pc = "load_jpn"
    /\ next_entry = 1
    /\ cur = [id |-> 0, headword |-> <<>>, reading |-> <<>>]
    /\ candidates = <<>>
    /\ selected = <<>>
    /\ remaining = <<>>
    /\ results = <<>>
    /\ processed = <<>>
    /\ word_senses = <<>>
    /\ max_entries = NoCap
    /\ db_rows = <<>>
    /\ committed = <<>>
    /\ run = 1
    /\ FilterIdle
    /\ PenaltyIdle
    /\ OthersIdle

\* self.load_sentences('jpn'); an exception leaves the constructor and
\* main exits
LoadJapanese ==
    /\ pc = "load_jpn"
    /\ IF OpenFails("sentences.csv", missing_files)
       THEN /\ pc' = "aborted"
            /\ UNCHANGED jpn_sentences
       ELSE LET r == LoadSentencesFrom(sentences_file, Lang.jpn, 1,
                                       jpn_sentences)
            IN /\ jpn_sentences' = r.dict
               /\ pc' = IF r.ok THEN "load_eng" ELSE "aborted"
    /\ UNCHANGED <<eng_sentences, links, entries, next_entry, cur, candidates,
                   selected, remaining, results, processed, dvars, fvars,
                   pvars, lvars, ovars>>

\* self.load_sentences('eng')
LoadEnglish ==
    /\ pc = "load_eng"
    /\ IF OpenFails("sentences.csv", missing_files)
       THEN /\ pc' = "aborted"
            /\ UNCHANGED eng_sentences
       ELSE LET r == LoadSentencesFrom(sentences_file, Lang.eng, 1,
                                       eng_sentences)
            IN /\ eng_sentences' = r.dict
               /\ pc' = IF r.ok THEN "load_links" ELSE "aborted"
    /\ UNCHANGED <<jpn_sentences, links, entries, next_entry, cur, candidates,
                   selected, remaining, results, processed, dvars, fvars,
                   pvars, lvars, ovars>>

\* self.load_links()
LoadLinks ==
    /\ pc = "load_links"
    /\ IF OpenFails("links.csv", missing_files)
       THEN /\ pc' = "aborted"
            /\ UNCHANGED links
       ELSE LET r == LoadLinksFrom(links_file, 1, links)
            IN /\ links' = r.links
               /\ pc' = IF r.ok THEN "loaded" ELSE "aborted"
    /\ UNCHANGED <<jpn_sentences, eng_sentences, entries, next_entry, cur,
                   candidates, selected, remaining, results, processed, dvars,
                   fvars, pvars, lvars, ovars>>

\* self.entries = self.load_dictionary_entries(): the constructor is done,
\* import_examples can start
LoadDictionary ==
    /\ pc = "loaded"
    /\ entries' = DictionaryEntries
    /\ pc' = "ready"
    /\ UNCHANGED <<jpn_sentences, eng_sentences, links, next_entry, cur,
                   candidates, selected, remaining, results, processed, dvars,
                   fvars, pvars, lvars, ovars>>

LoadNext == LoadJapanese \/ LoadEnglish \/ LoadLinks \/ LoadDictionary

SpecLoad == LoadInit /\ [][LoadNext]_vars

\* ------------------------------------------------------------------------
\* deduplicate_by_sense.py: duplicates removed per entry, one example kept
\* per sense.
\* ------------------------------------------------------------------------
MaxExamples == 4

\* table word_senses of the store the script runs on: sense |-> entry
SenseEntry == [s \in {1, 2, 3} |-> IF s = 3 THEN 2 ELSE 1]

ExampleTexts == {"t1", "t2"}

\* the tables example_sentences of at most n rows; the id of a row is its
\* position
ExampleTables(n) ==
    UNION { { [k \in 1..m |-> [id |-> k, sense_id |-> f[k][1],
                               japanese_text |-> f[k][2]]] :
                f \in [1..m -> (DOMAIN SenseEntry) \X ExampleTexts] } :
            m \in 0..n }

\* ORDER BY d.id, e.sense_id, e.id
RowBefore(a, b) ==
    \/ SenseEntry[a.sense_id] < SenseEntry[b.sense_id]
    \/ /\ SenseEntry[a.sense_id] = SenseEntry[b.sense_id]
       /\ \/ a.sense_id < b.sense_id
          \/ a.sense_id = b.sense_id /\ a.id < b.id

RECURSIVE InsertRow(_, _)
InsertRow(sorted, r) ==
    IF sorted = <<>> THEN <<r>>
    ELSE IF RowBefore(r, Head(sorted)) THEN <<r>> \o sorted
    ELSE <<Head(sorted)>> \o InsertRow(Tail(sorted), r)

RECURSIVE OrderRows(_)
OrderRows(seq) ==
    IF seq = <<>> THEN <<>>
    ELSE InsertRow(OrderRows(SubSeq(seq, 1, Len(seq) - 1)), seq[Len(seq)])

\* the rows the second query fetches: the examples of N5 entries, ordered
FetchedRows ==
    LET OfN5(r) == SenseEntry[r.sense_id] \in x_n5
    IN OrderRows(SelectSeq(x_rows, OfN5))

\* Variant: a repeated text is deleted whatever its sense holds.
SenseUnprotected(has, sense_id) == TRUE

\* `if sense_has_example[sense_id]`
SenseHasExample(has, sense_id) == sense_id \in has

DedupInit ==
    /\ x_rows \in ExampleTables(MaxExamples)
    /\ x_n5 \in (SUBSET {1, 2}) \ {{}}
    /\ x_pc = "start"
    /\ x_pos = 1
    /\ x_seen = {}
    /\ x_has = {}
    /\ x_delete = <<>>
    /\ FilterIdle
    /\ PenaltyIdle
    /\ ImportIdle
    /\ GeneratorIdle

\* steps 1 to 3: the statistics (which divide by the number of N5
\* examples) and the fetch
DedupStart ==
    /\ x_pc = "start"
    /\ x_pc' = IF FetchedRows = <<>> THEN "done" ELSE "scan"
    /\ UNCHANGED <<x_rows, x_n5, x_pos, x_seen, x_has, x_delete,
                   fvars, pvars, cvars, svars, dvars, lvars, gvars>>

\* step 4, one iteration of `for ex in examples`; seen_texts and
\* sense_has_example start empty with every entry
ScanExample ==
    /\ x_pc = "scan"
    /\ x_pos <= Len(FetchedRows)
    /\ LET rows == FetchedRows
           ex == rows[x_pos]
           first == \/ x_pos = 1
                    \/ SenseEntry[rows[x_pos - 1].sense_id]
                         # SenseEntry[ex.sense_id]
           seen_texts == IF first THEN {} ELSE x_seen
           has == IF first THEN {} ELSE x_has
       IN IF ex.japanese_text \in seen_texts
          THEN IF SenseHasExample(has, ex.sense_id)
               THEN /\ x_delete' = Append(x_delete, ex.id)
                    /\ x_seen' = seen_texts
                    /\ x_has' = has
               ELSE /\ x_delete' = x_delete
                    /\ x_seen' = seen_texts
                    /\ x_has' = has \cup {ex.sense_id}
          ELSE /\ x_delete' = x_delete
               /\ x_seen' = seen_texts \cup {ex.japanese_text}
               /\ x_has' = has \cup {ex.sense_id}
    /\ x_pos' = x_pos + 1
    /\ UNCHANGED <<x_rows, x_n5, x_pc, fvars, pvars, cvars, svars, dvars, lvars, gvars>>

\* step 5: nothing to delete ends the script
EndScan ==
    /\ x_pc = "scan"
    /\ x_pos > Len(FetchedRows)
    /\ x_pc' = IF x_delete = <<>> THEN "done" ELSE "confirm"
    /\ UNCHANGED <<x_rows, x_n5, x_pos, x_seen, x_has, x_delete,
                   fvars, pvars, cvars, svars, dvars, lvars, gvars>>

\* step 6: the DELETE statements and the commit
DeleteRows ==
    /\ x_pc = "confirm"
    /\ LET Kept(r) == \A k \in 1..Len(x_delete) : x_delete[k] # r.id
       IN x_rows' = SelectSeq(x_rows, Kept)
    /\ x_pc' = "done"
    /\ UNCHANGED <<x_n5, x_pos, x_seen, x_has, x_delete,
                   fvars, pvars, cvars, svars, dvars, lvars, gvars>>

\* the run is cancelled during the wait, or a DELETE raises and the
\* transaction is rolled back
DeleteCancelled ==
    /\ x_pc = "confirm"
    /\ x_pc' = "done"
    /\ UNCHANGED <<x_rows, x_n5, x_pos, x_seen, x_has, x_delete,
                   fvars, pvars, cvars, svars, dvars, lvars, gvars>>

DedupNext ==
    DedupStart \/ ScanExample \/ EndScan \/ DeleteRows \/ DeleteCancelled

SpecDedup == DedupInit /\ [][DedupNext]_vars

\* ------------------------------------------------------------------------
\* batch_generate_examples.py: examples generated through the API for
\* entries without examples, under a daily quota, over repeated runs.
\* ------------------------------------------------------------------------
MaxDailyLimit == 2
MaxBatchSize == 2
MaxRank == 3
MaxDays == 2
MaxCalls == 3

\* tables dictionary_entries: frequency ranks that do not follow the ids;
\* no frequency ranks at all; an entry without senses and one beyond
\* max_rank
EntryTables ==
    { << [id |-> 1, ranked |-> TRUE, rank |-> 2, senses |-> TRUE],
         [id |-> 2, ranked |-> TRUE, rank |-> 1, senses |-> TRUE],
         [id |-> 3, ranked |-> TRUE, rank |-> 3, senses |-> TRUE] >>,
      << [id |-> 1, ranked |-> FALSE, rank |-> 0, senses |-> TRUE],
         [id |-> 2, ranked |-> FALSE, rank |-> 0, senses |-> TRUE],
         [id |-> 3, ranked |-> FALSE, rank |-> 0, senses |-> TRUE] >>,
      << [id |-> 1, ranked |-> TRUE, rank |-> 1, senses |-> FALSE],
         [id |-> 2, ranked |-> TRUE, rank |-> 2, senses |-> TRUE],
         [id |-> 3, ranked |-> TRUE, rank |-> MaxRank + 1, senses |-> TRUE] >> }

\* `SELECT COUNT(*) ... WHERE frequency_rank IS NOT NULL` > 0
has_rank_data == \E k \in 1..Len(g_table) : g_table[k].ranked

\* the WHERE clause of the query that applies
Selected(e) ==
    /\ e.id > g_state.last_processed_id
    /\ e.id \notin g_examples
    /\ IF has_rank_data THEN e.ranked /\ e.rank <= g_cfg.max_rank
       ELSE e.id <= g_cfg.max_rank

\* ORDER BY frequency_rank ASC, id ASC, resp. ORDER BY id ASC
QueryBefore(a, b) ==
    IF has_rank_data
    THEN a.rank < b.rank \/ (a.rank = b.rank /\ a.id < b.id)
    ELSE a.id < b.id

RECURSIVE InsertEntry(_, _)
InsertEntry(sorted, e) ==
    IF sorted = <<>> THEN <<e>>
    ELSE IF QueryBefore(e, Head(sorted)) THEN <<e>> \o sorted
    ELSE <<Head(sorted)>> \o InsertEntry(Tail(sorted), e)

RECURSIVE OrderEntries(_)
OrderEntries(seq) ==
    IF seq = <<>> THEN <<>>
    ELSE InsertEntry(OrderEntries(SubSeq(seq, 1, Len(seq) - 1)),
                     seq[Len(seq)])

\* _get_entries_without_examples, LIMIT batch_size included
entries_without_examples ==
    LET hits == OrderEntries(SelectSeq(g_table, Selected))
    IN SubSeq(hits, 1, Min(g_cfg.batch_size, Len(hits)))

\* self.state after the date test of _check_daily_quota
StateToday ==
    IF g_state.date # g_today
    THEN [g_state EXCEPT !.date = g_today, !.api_calls_today = 0]
    ELSE g_state

GeneratorInit ==
    /\ \E limit \in 1..MaxDailyLimit, size \in 1..MaxBatchSize :
          g_cfg = [daily_limit |-> limit, batch_size |-> size,
                   max_rank |-> MaxRank]
    /\ g_table \in EntryTables
    /\ g_state = [date |-> 1, api_calls_today |-> 0, last_processed_id |-> 0]
    /\ g_today = 1
    /\ g_calls = 0
    /\ g_examples = {}
    /\ g_batch = <<>>
    /\ g_pc = "idle"
    /\ FilterIdle
    /\ PenaltyIdle
    /\ ImportIdle
    /\ DedupIdle

\* run() up to its loop: the quota test, then the query
StartRun ==
    /\ g_pc = "idle"
    /\ g_state' = StateToday
    /\ IF StateToday.api_calls_today >= g_cfg.daily_limit
       THEN g_batch' = <<>> /\ g_pc' = "idle"
       ELSE /\ g_batch' = entries_without_examples
            /\ g_pc' = IF entries_without_examples = <<>> THEN "idle"
                       ELSE "loop"
    /\ UNCHANGED <<g_cfg, g_table, g_today, g_calls, g_examples,
                   fvars, pvars, cvars, svars, dvars, lvars, xvars>>

\* the loop is exhausted, or the quota test at the top of the loop breaks
EndRun ==
    /\ g_pc = "loop"
    /\ \/ g_batch = <<>>
       \/ g_state.api_calls_today >= g_cfg.daily_limit
    /\ g_batch' = <<>>
    /\ g_pc' = "idle"
    /\ UNCHANGED <<g_cfg, g_table, g_state, g_today, g_calls, g_examples,
                   fvars, pvars, cvars, svars, dvars, lvars, xvars>>

\* process_entry for an entry without senses: skipped, no API call
SkipNoSenses ==
    /\ g_pc = "loop"
    /\ g_batch # <<>>
    /\ g_state.api_calls_today < g_cfg.daily_limit
    /\ ~Head(g_batch).senses
    /\ g_batch' = Tail(g_batch)
    /\ UNCHANGED <<g_cfg, g_table, g_state, g_today, g_calls, g_examples,
                   g_pc, fvars, pvars, cvars, svars, dvars, lvars, xvars>>

\* process_entry: the request is sent, and create() raises or the content
\* is not JSON; _call_openai_api returns None from its except branch
ApiCallFails ==
    /\ g_pc = "loop"
    /\ g_batch # <<>>
    /\ g_state.api_calls_today < g_cfg.daily_limit
    /\ Head(g_batch).senses
    /\ g_calls < MaxCalls
    /\ g_calls' = g_calls + 1
    /\ g_batch' = Tail(g_batch)
    /\ UNCHANGED <<g_cfg, g_table, g_state, g_today, g_examples, g_pc,
                   fvars, pvars, cvars, svars, dvars, lvars, xvars>>

\* process_entry: the call returns JSON and is counted; the examples are
\* inserted and the cursor moves, or the list is empty, or the insert
\* raises and is rolled back
ApiCallReturns ==
    /\ g_pc = "loop"
    /\ g_batch # <<>>
    /\ g_state.api_calls_today < g_cfg.daily_limit
    /\ Head(g_batch).senses
    /\ g_calls < MaxCalls
    /\ g_calls' = g_calls + 1
    /\ g_batch' = Tail(g_batch)
    /\ \E outcome \in {"inserted", "empty", "insert_fails"} :
          IF outcome = "inserted"
          THEN /\ g_examples' = g_examples \cup {Head(g_batch).id}
               /\ g_state' = [g_state EXCEPT
                                !.api_calls_today = @ + 1,
                                !.last_processed_id = Head(g_batch).id]
          ELSE /\ g_examples' = g_examples
               /\ g_state' = [g_state EXCEPT !.api_calls_today = @ + 1]
    /\ UNCHANGED <<g_cfg, g_table, g_today, g_pc,
                   fvars, pvars, cvars, svars, dvars, lvars, xvars>>

\* midnight
DayPasses ==
    /\ g_today < MaxDays
    /\ g_today' = g_today + 1
    /\ g_calls' = 0
    /\ UNCHANGED <<g_cfg, g_table, g_state, g_examples, g_batch, g_pc,
                   fvars, pvars, cvars, svars, dvars, lvars, xvars>>

GeneratorNext ==
    \/ StartRun
    \/ EndRun
    \/ SkipNoSenses
    \/ ApiCallFails
    \/ ApiCallReturns
    \/ DayPasses

SpecGenerator == GeneratorInit /\ [][GeneratorNext]_vars


\* ------------------------------------------------------------------------
\* Properties of filter_sentence (checked under SpecFilter).
\* ------------------------------------------------------------------------
\* number of non-whitespace characters of a text
NonSpaceCount(text) == Cardinality({ k \in 1..Len(text) : ~IsSpace(text[k]) })

LastChar(text) == text[Len(text)]

\* C4 as stated: the sentence of Scenario A is accepted with score 151.
C4_Original == (f_called /\ f_text = ScenarioA) => f_result = Some(151)

\* C4 (amended): filter_sentence accepts Scenario A's sentence (7
\* non-whitespace characters, ends in the full stop, no rare kanji) and
\* gives it 100 + (30-7)*2 + 5 + 5 = 156: both particles "ga" and "de"
\* occur in it, "de" inside the ending "desu".
C4_ScenarioA == (f_called /\ f_text = ScenarioA) => f_result = Some(156)

C4_Witness == f_called /\ f_text = ScenarioA /\ f_result.some

\* the nine particles of the score rule, as a set
ParticleSet ==
    { <<Ch.ha>>, <<Ch.ga>>, <<Ch.wo>>, <<Ch.ni>>, <<Ch.de>>, <<Ch.to>>,
      <<Ch.ka, Ch.ra>>, <<Ch.ma, Ch.de>>, <<Ch.yo, Ch.ri>> }

ExpectedScore(text) ==
    LET n == NonSpaceCount(text)
        rare == Cardinality({ k \in 1..Len(text) : text[k] \in 13312..19893 })
        present == { p \in ParticleSet : Contains(text, p) }
    IN 100 + (IF n <= 30 THEN (30 - n) * 2 ELSE 0 - (n - 30))
           - 10 * rare + 5 * Cardinality(present)

\* C5: every accepted sentence scores 100, plus (30 - length)*2 when
\* length <= 30 or minus (length - 30) otherwise, minus 10 per rare kanji,
\* plus 5 per distinct particle present, length counting non-whitespace
\* characters only.
C5_ScoreFormula ==
    (f_called /\ f_result.some) => f_result.score = ExpectedScore(f_text)

\* an accepted sentence longer than 30 in which the particle "ga" occurs
\* at two places
C5_Witness ==
    /\ f_called
    /\ f_result.some
    /\ NonSpaceCount(f_text) > 30
    /\ Cardinality({ k \in 1..Len(f_text) : f_text[k] = Ch.ga }) >= 2

\* C6: a text with fewer than 5 or more than 50 non-whitespace characters
\* gets None whatever it contains; whitespace does not count; a text of
\* length exactly 5 or 50 that passes the other two rules is accepted.
C6_LengthRule ==
    f_called =>
        /\ (NonSpaceCount(f_text) < 5 \/ NonSpaceCount(f_text) > 50)
               => f_result = None
        /\ ( /\ NonSpaceCount(f_text) \in {5, 50}
             /\ \A k \in 1..Len(f_text) : AllowedChar(f_text[k])
             /\ EndPunct(LastChar(f_text)) )
               => f_result.some

\* an accepted text of 50 non-whitespace characters that holds whitespace
C6_Witness ==
    /\ f_called
    /\ f_result.some
    /\ NonSpaceCount(f_text) = 50
    /\ Len(f_text) > 50

\* The allow-list as the claim words it, each class read as the whole
\* Unicode block: hiragana, katakana, CJK unified ideographs, the ten
\* punctuation marks, white space.
ClaimAllowList(c) ==
    \/ c \in 12352..12447                       \* U+3040-U+309F
    \/ c \in 12448..12543                       \* U+30A0-U+30FF
    \/ c \in 19968..40959                       \* U+4E00-U+9FFF
    \/ c \in {12289, 12290, 65281, 65311, 12300, 12301, 12302, 12303,
              65288, 65289}
    \/ IsSpace(c)

\* C7 as stated: a scored text has every character in the allow-list.
C7_Original ==
    (f_called /\ f_result.some)
        => \A k \in 1..Len(f_text) : ClaimAllowList(f_text[k])

\* C7 (amended): filter_sentence returns None unless every character is
\* hiragana, katakana (the prolonged sound mark included), a common kanji,
\* one of the marks U+3005, U+3006, U+3024, one of the ten punctuation
\* marks, or white space.
C7_Charset ==
    (f_called /\ f_result.some)
        => \A k \in 1..Len(f_text) :
               ClaimAllowList(f_text[k]) \/ f_text[k] \in {12293, 12294, 12324}

\* an accepted text that holds the iteration mark U+3005
C7_Witness ==
    /\ f_called
    /\ f_result.some
    /\ \E k \in 1..Len(f_text) : f_text[k] = Ch.noma

MarkerSet == { endings[k] : k \in 1..Len(endings) }
StructureSet == { structure_words[k] : k \in 1..Len(structure_words) }

\* the first marker of the ordered list that the text ends with, if any
HasMarker(text) == \E k \in 1..Len(endings) : EndsWith(text, endings[k])
FirstMarker(text) ==
    endings[CHOOSE k \in 1..Len(endings) :
                /\ EndsWith(text, endings[k])
                /\ \A j \in 1..(k - 1) : ~EndsWith(text, endings[j])]

Normalized(text, h, r) == Replace(Replace(text, h, WORD), r, WORD)
Stripped(text, h, r) == Replace(Replace(text, h, <<>>), r, <<>>)

SameMarker(a, b) == HasMarker(a) /\ HasMarker(b) /\ FirstMarker(a) = FirstMarker(b)
SharedWords(a, b) == { w \in StructureSet : Contains(a, w) /\ Contains(b, w) }
SameStart(a, b, h, r) ==
    /\ Take(Stripped(a, h, r), 3) = Take(Stripped(b, h, r), 3)
    /\ Take(Stripped(a, h, r), 3) # <<>>

IsCandidate(item, entry) ==
    /\ item.id \in DOMAIN links
    /\ Contains(item.text, entry.headword) \/ Contains(item.text, entry.reading)
    /\ filter_sentence(item.text).some
    /\ GetOrEmpty(eng_sentences, links[item.id][1]) # <<>>

CandidatePositions(entry) ==
    { k \in 1..Len(jpn_sentences) : IsCandidate(jpn_sentences[k], entry) }

PatternOf(text, entry) == Normalized(text, entry.headword, entry.reading)

CandidatePatterns(entry) ==
    { PatternOf(jpn_sentences[k].text, entry) : k \in CandidatePositions(entry) }

\* C1: every example returned for an entry holds the entry's headword or
\* its reading as a literal substring of its Japanese text.
C1_ContainsWord ==
    \A k \in 1..Len(results) : \A x \in 1..Len(results[k]) :
        \/ Contains(results[k][x].japanese, entries[k].headword)
        \/ Contains(results[k][x].japanese, entries[k].reading)

\* examples were returned for an entry although the corpus holds a linked,
\* filter-passing sentence without the entry's word
C1_Witness ==
    \E k \in 1..Len(results) :
        /\ results[k] # <<>>
        /\ \E j \in 1..Len(jpn_sentences) :
              /\ jpn_sentences[j].id \in DOMAIN links
              /\ filter_sentence(jpn_sentences[j].text).some
              /\ ~Contains(jpn_sentences[j].text, entries[k].headword)
              /\ ~Contains(jpn_sentences[j].text, entries[k].reading)

\* C2: the number of examples selected for an entry is min(3, number of
\* candidates found for it).
C2_Count ==
    \A k \in 1..Len(results) :
        Len(results[k]) = Min(3, Cardinality(CandidatePositions(entries[k])))

\* an entry with four candidates, of which three were selected
C2_Witness ==
    \E k \in 1..Len(results) :
        /\ Cardinality(CandidatePositions(entries[k])) >= 4
        /\ Len(results[k]) = 3

NoSharedPattern(examples, entry) ==
    \A x, y \in 1..Len(examples) :
        x # y => PatternOf(examples[x].japanese, entry)
                   # PatternOf(examples[y].japanese, entry)

\* C3 as stated: when the candidates of an entry have at least 2 different
\* patterns, no two selected examples share a pattern.
C3_Original ==
    \A k \in 1..Len(results) :
        Cardinality(CandidatePatterns(entries[k])) >= 2
            => NoSharedPattern(results[k], entries[k])

\* C3 (amended): when the candidates of an entry have at least 2 different
\* patterns the first two selected examples differ in pattern, and no two
\* selected examples share a pattern when the candidates have at least as
\* many different patterns as examples are selected.
C3_Patterns ==
    \A k \in 1..Len(results) :
        LET np == Cardinality(CandidatePatterns(entries[k])) IN
        /\ np >= 2 => PatternOf(results[k][1].japanese, entries[k])
                        # PatternOf(results[k][2].japanese, entries[k])
        /\ np >= Len(results[k]) => NoSharedPattern(results[k], entries[k])

\* three examples of three patterns selected from candidates of which two
\* share a pattern
C3_Witness ==
    \E k \in 1..Len(results) :
        /\ Len(results[k]) = 3
        /\ NoSharedPattern(results[k], entries[k])
        /\ Cardinality(CandidatePatterns(entries[k]))
             < Cardinality(CandidatePositions(entries[k]))

\* diversityScore(c) = c.score - sum of similarityPenalty(c, s), s selected
RECURSIVE SumOver(_, _)
SumOver(f, n) == IF n = 0 THEN 0 ELSE f[n] + SumOver(f, n - 1)

DiversityOf(c, sel) ==
    c.score - SumOver([k \in 1..Len(sel) |->
                         calculate_similarity_penalty(c.japanese, sel[k].japanese,
                                                      c.headword, c.reading)],
                      Len(sel))

\* C9: each pick after the first takes a pool candidate of maximum
\* diversityScore, the earliest in the pool among equals; the first pick is
\* candidates[0], a candidate of the highest score.
C9_Picks ==
    [][ /\ (pc = "loop" /\ Len(selected') = Len(selected) + 1) =>
           \E b \in 1..Len(remaining) :
              /\ selected' = Append(selected, remaining[b])
              /\ remaining' = Pop(remaining, b)
              /\ \A j \in 1..Len(remaining) :
                    DiversityOf(remaining[j], selected)
                      <= DiversityOf(remaining[b], selected)
              /\ \A j \in 1..(b - 1) :
                    DiversityOf(remaining[j], selected)
                      < DiversityOf(remaining[b], selected)
        /\ (pc = "ready" /\ pc' = "loop") =>
              /\ selected' = <<candidates'[1]>>
              /\ \A j \in 1..Len(candidates') :
                    candidates'[j].score <= candidates'[1].score
      ]_vars

\* the second pick tied with a candidate that stayed in the pool
C9_Witness ==
    /\ pc = "loop"
    /\ Len(selected) = 2
    /\ \E j \in 1..Len(remaining) :
          DiversityOf(remaining[j], <<selected[1]>>)
            = DiversityOf(selected[2], <<selected[1]>>)

\* the selected examples whose pattern is identical to the candidate's
SamePatternAs(c, sel) ==
    { k \in 1..Len(sel) :
        Normalized(sel[k].japanese, c.headword, c.reading)
          = Normalized(c.japanese, c.headword, c.reading) }

\* C11: a pool candidate whose pattern is identical to a selected example
\* has diversityScore = score - 1000 - (penalties against the other
\* selected examples), and at every selection step a pool candidate whose
\* pattern is identical to no selected example is picked before every
\* pool candidate whose pattern is identical to a selected one.
C11_IdenticalLast ==
    [][ pc = "loop" =>
          /\ \A j \in 1..Len(remaining) :
               \A k \in SamePatternAs(remaining[j], selected) :
                  diversity_score(remaining[j], selected)
                    = remaining[j].score - 1000
                      - (DiversityOf(remaining[j], <<>>)
                         - DiversityOf(remaining[j], Pop(selected, k)))
          /\ ( /\ Len(selected') = Len(selected) + 1
               /\ \E j \in 1..Len(remaining) :
                     SamePatternAs(remaining[j], selected) = {} )
             => SamePatternAs(selected'[Len(selected')], selected) = {}
      ]_vars

\* a second pick passed over a better-scored pool candidate whose pattern
\* is identical to the first pick's
C11_Witness ==
    /\ pc = "loop"
    /\ Len(selected) = 2
    /\ SamePatternAs(selected[2], <<selected[1]>>) = {}
    /\ \E j \in 1..Len(remaining) :
          /\ SamePatternAs(remaining[j], <<selected[1]>>) # {}
          /\ remaining[j].score > selected[2].score

\* the sentence of the corpus with the given text, and the text of its
\* first linked sentence
ItemOf(text) ==
    jpn_sentences[CHOOSE j \in 1..Len(jpn_sentences) :
                     jpn_sentences[j].text = text]
FirstTargetText(id) ==
    LET hit == { k \in 1..Len(eng_sentences) :
                   eng_sentences[k].id = links[id][1] }
    IN IF hit = {} THEN <<>>
       ELSE eng_sentences[CHOOSE k \in hit : TRUE].text

\* C17: the translation of a returned example is the text of the first
\* sentence its Japanese sentence is linked to, and a sentence whose first
\* linked text is missing or empty is returned for no entry, whatever its
\* later links are.
C17_FirstLink ==
    \A k \in 1..Len(results) :
        /\ \A x \in 1..Len(results[k]) :
              LET item == ItemOf(results[k][x].japanese) IN
                 /\ item.id \in DOMAIN links
                 /\ results[k][x].english = FirstTargetText(item.id)
                 /\ results[k][x].english # <<>>
        /\ \A j \in 1..Len(jpn_sentences) :
              ( /\ jpn_sentences[j].id \in DOMAIN links
                /\ FirstTargetText(jpn_sentences[j].id) = <<>> )
              => \A x \in 1..Len(results[k]) :
                    results[k][x].japanese # jpn_sentences[j].text

\* examples were returned for an entry while a sentence with the entry's
\* word that passes the filter was left out: its first link has no text,
\* its second has one
C17_Witness ==
    \E k \in 1..Len(results) :
        /\ results[k] # <<>>
        /\ \E j \in 1..Len(jpn_sentences) :
              LET item == jpn_sentences[j] IN
                 /\ item.id \in DOMAIN links
                 /\ Len(links[item.id]) = 2
                 /\ FirstTargetText(item.id) = <<>>
                 /\ GetOrEmpty(eng_sentences, links[item.id][2]) # <<>>
                 /\ filter_sentence(item.text).some
                 /\ ContainsWord(item.text, entries[k].headword,
                                 entries[k].reading)

\* C18: no step of the processing of an entry changes the map of Japanese
\* sentences, the map of English sentences or the links: neither the link
\* lists nor the set of sentences that have one.
C18_CorpusFrame ==
    [][ (pc \in {"ready", "loop", "return", "insert"}) =>
          /\ jpn_sentences' = jpn_sentences
          /\ eng_sentences' = eng_sentences
          /\ DOMAIN links' = DOMAIN links
          /\ \A id \in DOMAIN links : links'[id] = links[id]
      ]_vars

\* an entry was processed on a corpus one of whose sentences has no links
C18_Witness ==
    /\ Len(results) >= 1
    /\ results[1] # <<>>
    /\ \E j \in 1..Len(jpn_sentences) : jpn_sentences[j].id \notin DOMAIN links

\* the rows of the store that belong to a sense, in insertion order
RowsOfSense(rows, sense_id) ==
    LET OfSense(r) == r.sense_id = sense_id IN SelectSeq(rows, OfSense)
\* the examples returned k-th in this run have been inserted
Inserted(k) == k < Len(results) \/ pc \in {"ready", "done"}

\* C13: within one run the rows written for a sense carry the order
\* indexes 1..n, consecutive from 1, in the order in which the examples
\* were selected, and n is at most 3.
C13_OrderIndex ==
    \A k \in 1..Len(results) :
        Inserted(k) =>
           LET rows == RowsOfSense(db_rows, senses(processed[k])) IN
              /\ Len(rows) = Len(results[k])
              /\ Len(rows) <= 3
              /\ \A x \in 1..Len(rows) :
                    /\ rows[x].example_order = x
                    /\ rows[x].japanese_text = results[k][x].japanese
                    /\ rows[x].english_translation = results[k][x].english

\* three rows were written for a sense whose examples are not in
\* descending order of score
C13_Witness ==
    \E k \in 1..Len(results) :
        /\ Inserted(k)
        /\ Len(RowsOfSense(db_rows, senses(processed[k]))) = 3
        /\ results[k][2].score < results[k][3].score

\* C12: the example store never holds two rows with the same sense and the
\* same Japanese text, however often the importer is run.
C12_UniqueRows ==
    \A a, b \in 1..Len(db_rows) :
        ( /\ db_rows[a].sense_id = db_rows[b].sense_id
          /\ db_rows[a].japanese_text = db_rows[b].japanese_text )
        => a = b

\* C14: a failing insert stops neither the run nor undoes other senses'
\* rows: the rows inserted earlier in the run for other senses stay in the
\* store, and the run does not end before the last entry was processed.
C14_FailureIsolated ==
    /\ \A k \in 1..(Len(results) - 1) :
          results[k] # <<>>
          => RowsOfSense(db_rows, senses(processed[k])) # <<>>
    /\ pc = "aborted" => next_entry > Len(entries_to_process)

\* find_examples_for_entry as a function of the corpus and the entry
RECURSIVE Greedy(_, _)
Greedy(sel, rem) ==
    IF LoopContinues(rem, sel)
    THEN LET b == best_idx(rem, sel)
         IN Greedy(Append(sel, rem[b]), Pop(rem, b))
    ELSE sel
ExamplesOf(entry) ==
    LET sorted == SortByScore(CollectCandidates(entry, 1))
    IN IF sorted = <<>> THEN <<>>
       ELSE WithoutWord(Greedy(<<sorted[1]>>, Pop(sorted, 1)))
EntryWithId(id) == entries[CHOOSE k \in 1..Len(entries) : entries[k].id = id]

\* C19: the examples returned for an entry are a function of the corpus
\* and the entry alone: the same list whichever entries were processed
\* before it, in whichever order, and in whichever run.
C19_OrderIndependent ==
    \A k \in 1..Len(results) :
        results[k] = ExamplesOf(EntryWithId(processed[k]))

\* the second entry of the dictionary was processed before the first, in
\* a second run, and the two got different, non-empty lists
C19_Witness ==
    /\ run = 2
    /\ Len(results) = 2
    /\ processed = <<DictionaryEntries[2].id, DictionaryEntries[1].id>>
    /\ results[1] # <<>>
    /\ results[2] # <<>>
    /\ results[1] # results[2]

JpnIds == { jpn_sentences[k].id : k \in 1..Len(jpn_sentences) }
EngIds == { eng_sentences[k].id : k \in 1..Len(eng_sentences) }
KeyOf(row) ==
    LET idA == IntOf(row[1]).val
        idB == IntOf(row[2]).val
    IN IF idA \in JpnIds /\ idB \in EngIds THEN idA
       ELSE IF idB \in JpnIds /\ idA \in EngIds THEN idB
       ELSE 0
TargetOf(row) ==
    LET idA == IntOf(row[1]).val
    IN IF KeyOf(row) = idA THEN IntOf(row[2]).val ELSE idA
\* the targets the rows of the link file give a key, in the file's order
TargetsOf(key) ==
    LET ForKey(row) == Len(row) >= 2 /\ KeyOf(row) = key
        hits == SelectSeq(links_file, ForKey)
    IN [x \in 1..Len(hits) |-> TargetOf(hits[x])]

\* C16: after load_links every edge (idA, idB) of the file is registered as
\* idA -> idB when idA is a loaded Japanese id and idB a loaded English id,
\* else as idB -> idA when idB is Japanese and idA English, else not at
\* all: the keys are Japanese ids, the targets English ids, and the targets
\* of a key are in the order of the file.
C16_LinkResolution ==
    pc = "loaded" =>
       /\ DOMAIN links \subseteq JpnIds
       /\ \A id \in DOMAIN links :
             \A x \in 1..Len(links[id]) : links[id][x] \in EngIds
       /\ \A id \in JpnIds :
             IF TargetsOf(id) = <<>> THEN id \notin DOMAIN links
             ELSE id \in DOMAIN links /\ links[id] = TargetsOf(id)

\* a Japanese sentence got two different targets, the first from a row
\* Japanese -> English, the second from a row English -> Japanese
C16_Witness ==
    /\ pc = "loaded"
    /\ Len(links_file) = 2
    /\ IntOf(links_file[1][1]).val \in JpnIds
    /\ IntOf(links_file[2][1]).val \in EngIds
    /\ \E id \in DOMAIN links :
          /\ Len(links[id]) = 2
          /\ links[id][1] # links[id][2]

\* the position of a sentence in the iteration over self.jpn_sentences
CorpusPos(text) ==
    CHOOSE j \in 1..Len(jpn_sentences) : jpn_sentences[j].text = text

\* C21: the candidates handed to calculate_diversity_score are in
\* descending order of score, and candidates of equal score are in the
\* order in which the corpus was iterated.
C21_StableDescending ==
    pc \in {"loop", "return", "insert"} =>
       \A a, b \in 1..Len(candidates) :
          a < b =>
             /\ candidates[a].score >= candidates[b].score
             /\ candidates[a].score = candidates[b].score
                  => CorpusPos(candidates[a].japanese)
                       < CorpusPos(candidates[b].japanese)

\* two candidates tie, and another pair was reordered by the sort
C21_Witness ==
    /\ pc = "loop"
    /\ \E a, b \in 1..Len(candidates) :
          a < b /\ candidates[a].score = candidates[b].score
    /\ \E a, b \in 1..Len(candidates) :
          /\ a < b
          /\ CorpusPos(candidates[a].japanese)
               > CorpusPos(candidates[b].japanese)

\* C22: when sentences.csv or links.csv cannot be opened the constructor
\* never completes: the importer does not reach the state in which
\* import_examples starts, the entries are not loaded, nothing is returned
\* for an entry and nothing is inserted or committed.
C22_AbortOnMissingFile ==
    missing_files # {} =>
       /\ pc \in {"load_jpn", "load_eng", "load_links", "aborted"}
       /\ "sentences.csv" \in missing_files => pc \in {"load_jpn", "aborted"}
       /\ entries = <<>>
       /\ results = <<>>
       /\ db_rows = <<>>
       /\ committed = <<>>

\* the sentences were loaded, then links.csv could not be opened
C22_Witness ==
    /\ pc = "aborted"
    /\ missing_files = {"links.csv"}
    /\ jpn_sentences # <<>>
    /\ eng_sentences # <<>>

\* C26: every row written by import_examples belongs to the first sense of
\* its entry, the one with the lowest sense_order; no other sense of an
\* entry receives rows.
C26_FirstSense ==
    \A r \in 1..Len(db_rows) :
        \E w \in 1..Len(word_senses) :
            /\ word_senses[w].id = db_rows[r].sense_id
            /\ \A v \in 1..Len(word_senses) :
                  word_senses[v].entry_id = word_senses[w].entry_id
                  => word_senses[w].sense_order <= word_senses[v].sense_order

\* C27: with a cap N given, at most N entries are processed in a run, and
\* they are among the first N of the entry list; N = 0 included.
C27_CapRespected ==
    max_entries.given =>
       /\ Len(processed) <= max_entries.n
       /\ \A k \in 1..Len(processed) :
             \E j \in 1..Min(max_entries.n, Len(entries)) :
                entries[j].id = processed[k]

\* the characters counted as rare kanji, U+3400 to U+4DB5
RareKanji == 13312..19893
RareCount(text) == Cardinality({ k \in 1..Len(text) : text[k] \in RareKanji })

\* C28: a text that holds a rare kanji is rejected, no rare kanji is in the
\* charset class, and the score of an accepted text is 100 plus the length
\* term plus 5 per distinct particle present, with no rare-kanji deduction.
C28_RareKanjiDead ==
    f_called =>
       /\ RareCount(f_text) > 0 => f_result = None
       /\ f_text = ScenarioA => \A c \in RareKanji : ~AllowedChar(c)
       /\ f_result.some =>
             LET n == NonSpaceCount(f_text)
                 present == { p \in ParticleSet : Contains(f_text, p) }
             IN f_result.score
                  = 100 + (IF n <= 30 THEN (30 - n) * 2 ELSE 0 - (n - 30))
                        + 5 * Cardinality(present)

\* a text was rejected that holds a rare kanji and passes the length rule
\* and the ending rule
C28_Witness ==
    /\ f_called
    /\ f_result = None
    /\ RareCount(f_text) > 0
    /\ NonSpaceCount(f_text) \in MIN_LENGTH..MAX_LENGTH
    /\ EndPunct(LastChar(f_text))
    /\ \A k \in 1..Len(f_text) :
          AllowedChar(f_text[k]) \/ f_text[k] \in RareKanji

\* C29: every candidate's score lies in 80..195, every diversity score
\* computed in the loop is at least 80 - 2*1000 and above the initial
\* best_diversity_score -999999, and the candidate at best_idx has the
\* greatest diversity score of the pool.
C29_ScoreBounds ==
    /\ \A k \in 1..Len(candidates) : candidates[k].score \in 80..195
    /\ pc = "loop" =>
          \A j \in 1..Len(remaining) :
             LET d == diversity_score(remaining[j], selected) IN
                /\ d >= 80 - 2 * 1000
                /\ d > 0 - 999999
                /\ d <= diversity_score(
                            remaining[best_idx(remaining, selected)], selected)

\* the third example was picked with a negative diversity score
C29_Witness ==
    /\ pc = "loop"
    /\ Len(selected) = 3
    /\ diversity_score(selected[3], <<selected[1], selected[2]>>) < 0

\* the elements of a list
Elems(seq) == { seq[k] : k \in 1..Len(seq) }
\* selected and remaining share no candidate and together hold exactly
\* the candidates, each once
Partition(sel, rem, all) ==
    /\ Elems(sel) \cup Elems(rem) = Elems(all)
    /\ Elems(sel) \cap Elems(rem) = {}
    /\ Cardinality(Elems(sel)) = Len(sel)
    /\ Cardinality(Elems(rem)) = Len(rem)
    /\ Len(sel) + Len(rem) = Len(all)

\* C30: during calculate_diversity_score the selected list and the pool
\* partition the input candidates, every iteration moves exactly one
\* candidate from the pool to the selected list, at most 2 iterations run
\* after the first pick, and the input list is not modified.
C30_Partition ==
    [][ (pc = "loop") =>
          /\ Partition(selected, remaining, candidates)
          /\ Len(selected) \in 1..3
          /\ candidates' = candidates
          /\ selected' # selected =>
                /\ Len(remaining') = Len(remaining) - 1
                /\ Len(selected') = Len(selected) + 1
                /\ Partition(selected', remaining', candidates')
      ]_vars

\* the second iteration took a candidate from inside the pool
C30_Witness ==
    /\ pc = "loop"
    /\ Len(selected) = 3
    /\ remaining # <<>>
    /\ \E a, b \in 1..Len(candidates) :
          /\ a < b
          /\ candidates[b] = selected[3]
          /\ candidates[a] \in Elems(remaining)

\* the rows of a table, and the senses that have a row in it
RowSet(rows) == { rows[k] : k \in 1..Len(rows) }
SensesIn(rows) == { rows[k].sense_id : k \in 1..Len(rows) }

\* C25: no step of deduplicate_by_sense leaves a sense that had an example
\* without one, and a row is removed only if a row of the same entry that
\* comes earlier (by sense, then id) has the same text and a row of its
\* sense is kept.
C25_KeepsOnePerSense ==
    [][ /\ SensesIn(x_rows) \subseteq SensesIn(x_rows')
        /\ RowSet(x_rows') \subseteq RowSet(x_rows)
        /\ \A r \in RowSet(x_rows) \ RowSet(x_rows') :
              /\ \E q \in RowSet(x_rows) :
                    /\ SenseEntry[q.sense_id] = SenseEntry[r.sense_id]
                    /\ q.japanese_text = r.japanese_text
                    /\ \/ q.sense_id < r.sense_id
                       \/ q.sense_id = r.sense_id /\ q.id < r.id
              /\ \E q \in RowSet(x_rows') : q.sense_id = r.sense_id
      ]_vars

\* a row was deleted, and a row whose text repeats an earlier one of its
\* entry was kept because its sense had no other example
C25_Witness ==
    /\ x_pc = "done"
    /\ x_delete # <<>>
    /\ \A k \in 1..Len(x_delete) : \A r \in RowSet(x_rows) : r.id # x_delete[k]
    /\ \E q, r \in RowSet(x_rows) :
          /\ q.sense_id < r.sense_id
          /\ SenseEntry[q.sense_id] = SenseEntry[r.sense_id]
          /\ q.japanese_text = r.japanese_text

\* C23: the API calls made on a day never exceed daily_limit, and the
\* counter api_calls_today kept for that day equals their number.
C23_DailyQuota ==
    /\ g_calls <= g_cfg.daily_limit
    /\ g_state.date = g_today => g_state.api_calls_today = g_calls

\* the entries the generator is meant to give examples: within max_rank,
\* with senses
InScope(e) ==
    /\ e.senses
    /\ IF has_rank_data THEN e.ranked /\ e.rank <= g_cfg.max_rank
       ELSE e.id <= g_cfg.max_rank

\* C24: between runs the cursor last_processed_id lies below every entry
\* in scope that still has no example, so the next runs fetch it: no such
\* entry is passed over by the cursor.
C24_CursorSkipsNone ==
    g_pc = "idle" =>
       \A k \in 1..Len(g_table) :
          (InScope(g_table[k]) /\ g_table[k].id \notin g_examples)
          => g_table[k].id > g_state.last_processed_id
====
